---- MODULE Spec2Model ----
(***************************************************************************)
(* A model of package wpasupplicant (wpasupplicant.go): the Conn type, its *)
(* Connect/Close life cycle, the sendRequest exchange over the unixgram    *)
(* socket, and the public operations that decode the daemon's reply.       *)
(*                                                                         *)
(* Byte strings ([]byte and the Go strings made from them) are sequences   *)
(* of one-character strings; request lines are TLA+ strings built with \o. *)
(***************************************************************************)
EXTENDS Integers, Sequences, FiniteSets, TLC

\* ------------------------------------------------------------------------
\* Bounds of the model
\* ------------------------------------------------------------------------
MaxConnects == 2
MaxCalls == 3
MaxReplyCalls == 2
MaxKeys == 2
MaxLines == 2

\* ------------------------------------------------------------------------
\* Program constants
\* ------------------------------------------------------------------------
KeyASCII == 0
KeyHex == 1
BufSize == 4096

Formats == {KeyASCII, KeyHex}

\* ------------------------------------------------------------------------
\* Byte strings
\* ------------------------------------------------------------------------
OKReply == <<"O", "K", "\n">>
PongReply == <<"P", "O", "N", "G", "\n">>
FailReply == <<"F", "A", "I", "L", "\n">>
Header == <<"i", "d", "\n">>
DataLine == <<"0", "\t", "a", "\n">>

RECURSIVE Lines(_)
Lines(n) == IF n = 0 THEN <<>> ELSE Lines(n - 1) \o DataLine

\* a LIST_NETWORKS payload: one header line and n newline-terminated lines
ListReply(n) == Header \o Lines(n)

\* a payload one data line longer than the receive buffer
LongReply == Header \o [i \in 1..BufSize |-> "x"] \o <<"\n">>

Digits == <<"0", "1", "2", "3", "4", "5", "6", "7", "8", "9">>
IsDigit(ch) == \E d \in 1..10 : Digits[d] = ch
DigitVal(ch) == (CHOOSE d \in 1..10 : Digits[d] = ch) - 1

\* unicode.IsSpace on the bytes a datagram of ASCII text holds
IsSpace(ch) == ch \in {" ", "\t", "\n", "\r"}

\* strings.TrimSpace
TrimSpace(s) ==
    LET keep == {i \in 1..Len(s) : ~IsSpace(s[i])}
    IN  IF keep = {} THEN <<>>
        ELSE LET lo == CHOOSE i \in keep : \A j \in keep : i <= j
                 hi == CHOOSE i \in keep : \A j \in keep : j <= i
             IN  SubSeq(s, lo, hi)

\* strings.Count(s, "\n")
CountNewlines(s) == Cardinality({i \in 1..Len(s) : s[i] = "\n"})

\* bytes.Equal
BytesEqual(a, b) == Len(a) = Len(b) /\ \A i \in 1..Len(a) : a[i] = b[i]

\* ------------------------------------------------------------------------
\* Errors: kind "nil" is Go's nil error; text is what Error() returns
\* ------------------------------------------------------------------------
NoErr == [kind |-> "nil", text |-> <<>>]
EINVAL == [kind |-> "errno", text |-> <<"i", "n", "v", "a", "l", "i", "d", " ",
                                        "a", "r", "g", "u", "m", "e", "n", "t">>]
ErrClosed == [kind |-> "neterr", text |-> <<"u", "s", "e", " ", "o", "f", " ",
                                           "c", "l", "o", "s", "e", "d">>]
ErrIO == [kind |-> "neterr", text |-> <<"i", "/", "o">>]
NilText == <<"<", "n", "i", "l", ">">>

\* fmt.Errorf("%v", s)
Errorf(s) == [kind |-> "errorf", text |-> s]

SendPrefix == <<"E", "r", "r", "o", "r", " ", "s", "e", "n", "d", "i", "n", "g",
                " ", "r", "e", "q", "u", "e", "s", "t", ":", " ">>
PingPrefix == <<"R", "e", "c", "e", "i", "v", "e", "d", " ", "u", "n", "e", "x",
                "p", "e", "c", "t", "e", "d", " ", "r", "e", "p", "l", "y", ":",
                " ">>

\* fmt.Errorf("Error sending request: %v", err); %v of a nil error is <nil>
SendError(err) ==
    Errorf(SendPrefix \o (IF err.kind = "nil" THEN NilText ELSE err.text))

\* ------------------------------------------------------------------------
\* strconv.Atoi: an optional sign and decimal digits; a syntax error yields
\* the value 0 together with a *NumError
\* ------------------------------------------------------------------------
RECURSIVE DecVal(_)
DecVal(s) == IF s = <<>> THEN 0
             ELSE 10 * DecVal(SubSeq(s, 1, Len(s) - 1)) + DigitVal(s[Len(s)])

AtoiPrefix == <<"s", "t", "r", "c", "o", "n", "v", ".", "A", "t", "o", "i", ":",
                " ", "p", "a", "r", "s", "i", "n", "g", " ", "\"">>
AtoiSuffix == <<"\"", ":", " ", "i", "n", "v", "a", "l", "i", "d", " ", "s", "y",
                "n", "t", "a", "x">>

\* &NumError{"Atoi", s, ErrSyntax}
SyntaxError(s) == [kind |-> "NumError", text |-> AtoiPrefix \o s \o AtoiSuffix]

Atoi(s) ==
    LET signed == s # <<>> /\ s[1] \in {"+", "-"}
        body == IF signed THEN Tail(s) ELSE s
    IN  IF body = <<>> \/ \E i \in 1..Len(body) : ~IsDigit(body[i])
        THEN [val |-> 0, err |-> SyntaxError(s)]
        ELSE [val |-> IF signed /\ s[1] = "-" THEN 0 - DecVal(body) ELSE DecVal(body),
              err |-> NoErr]

\* ------------------------------------------------------------------------
\* Reply classification (checkReplyOk) and the request lines
\* ------------------------------------------------------------------------
\* as checkReplyOk, but comparing the reply with its white space trimmed
checkReplyOkTrimmed(reply) ==
    IF ~BytesEqual(<<"O", "K">>, TrimSpace(reply)) THEN Errorf(reply) ELSE NoErr

checkReplyOk(reply) == IF ~BytesEqual(OKReply, reply) THEN Errorf(reply) ELSE NoErr

Ids == {5}
KeyName(i) == "k" \o ToString(i)
KeyLists == {[i \in 1..n |-> KeyName(i - 1)] : n \in 0..MaxKeys}

\* fmt.Sprintf("SET_NETWORK %v %v %v", id, field, value)
SetNetworkMsg(id, field, value) ==
    "SET_NETWORK " \o ToString(id) \o " " \o field \o " " \o value

\* SetNetworkQuoted: fmt.Sprintf("\"%v\"", value)
Quoted(value) == "\"" \o value \o "\""

\* the request SetNetworkWepKeys issues for keys[i], i counted from 0
WepKeyMsg(id, format, i, value) ==
    IF format = KeyASCII
    THEN SetNetworkMsg(id, "wep_key" \o ToString(i), Quoted(value))
    ELSE SetNetworkMsg(id, "wep_key" \o ToString(i), value)

OkOps == {"SetNetwork", "SetNetworkQuoted", "RemoveNetwork", "RemoveAllNetworks",
          "SetGlobalParameter", "SelectNetwork", "EnableNetwork",
          "EnableAllNetworks", "DisableNetwork", "DisableAllNetworks",
          "Reassociate", "Reconnect", "Reconfigure", "SaveConfig"}
RawOps == {"ListNetworks", "Status", "StatusVerbose", "Interfaces", "Ifname", "BSS"}
SimpleOps == OkOps \cup RawOps \cup {"GetNetwork", "AddNetwork", "NumOfNetworks", "Ping"}
RequestOps == SimpleOps \cup {"SetNetworkWepKeys"}

\* the request line each method passes to sendRequest
RequestMsg(name, id) ==
    CASE name = "SetNetwork" -> SetNetworkMsg(id, "proto", "WPA2")
      [] name = "SetNetworkQuoted" -> SetNetworkMsg(id, "ssid", Quoted("foo"))
      [] name = "RemoveNetwork" -> "REMOVE_NETWORK " \o ToString(id)
      [] name = "RemoveAllNetworks" -> "REMOVE_NETWORK all"
      [] name = "SetGlobalParameter" -> "SET " \o "country" \o " " \o "US"
      [] name = "SelectNetwork" -> "SELECT_NETWORK " \o ToString(id)
      [] name = "EnableNetwork" -> "ENABLE_NETWORK " \o ToString(id)
      [] name = "EnableAllNetworks" -> "ENABLE_NETWORK all"
      [] name = "DisableNetwork" -> "DISABLE_NETWORK " \o ToString(id)
      [] name = "DisableAllNetworks" -> "DISABLE_NETWORK all"
      [] name = "Reassociate" -> "REASSOCIATE"
      [] name = "Reconnect" -> "RECONNECT"
      [] name = "Reconfigure" -> "RECONFIGURE"
      [] name = "SaveConfig" -> "SAVE_CONFIG"
      [] name = "ListNetworks" -> "LIST_NETWORKS"
      [] name = "NumOfNetworks" -> "LIST_NETWORKS"
      [] name = "Status" -> "STATUS"
      [] name = "StatusVerbose" -> "STATUS-VERBOSE"
      [] name = "Interfaces" -> "INTERFACES"
      [] name = "Ifname" -> "IFNAME"
      [] name = "BSS" -> "BSS " \o ToString(id)
      [] name = "GetNetwork" -> "GET_NETWORK " \o ToString(id) \o " " \o "ssid"
      [] name = "AddNetwork" -> "ADD_NETWORK"
      [] name = "Ping" -> "PING"

\* ------------------------------------------------------------------------
\* What each method returns once sendRequest has returned (reply, xerr):
\* err, and the value as num (int results) or str (string results)
\* ------------------------------------------------------------------------
Ret(err, num, str) == [err |-> err, num |-> num, str |-> str]

sendRequestOk(reply, xerr) == IF xerr # NoErr THEN xerr ELSE checkReplyOk(reply)

AddNetwork(reply, xerr) ==
    IF xerr # NoErr THEN Ret(xerr, 0 - 1, <<>>)
    ELSE LET r == Atoi(TrimSpace(reply)) IN Ret(r.err, r.val, <<>>)

ListNetworks(reply, xerr) == Ret(xerr, 0, reply)

\* as NumOfNetworks, but counting the header line too
NumOfNetworksWithHeader(reply, xerr) ==
    LET l == ListNetworks(reply, xerr)
    IN  IF l.err # NoErr THEN Ret(l.err, 0, <<>>)
        ELSE Ret(NoErr, CountNewlines(l.str), <<>>)

NumOfNetworks(reply, xerr) ==
    LET l == ListNetworks(reply, xerr)
    IN  IF l.err # NoErr THEN Ret(l.err, 0, <<>>)
        ELSE Ret(NoErr, CountNewlines(l.str) - 1, <<>>)

\* as Ping, but accepting any reply that begins with PONG
PingPrefixMatch(reply, xerr) ==
    IF xerr # NoErr THEN xerr
    ELSE IF ~(Len(reply) >= 4 /\ BytesEqual(<<"P", "O", "N", "G">>, SubSeq(reply, 1, 4)))
         THEN Errorf(PingPrefix \o reply)
    ELSE NoErr

Ping(reply, xerr) ==
    IF xerr # NoErr THEN xerr
    ELSE IF ~BytesEqual(PongReply, reply) THEN Errorf(PingPrefix \o reply)
    ELSE NoErr

GetNetwork(reply, xerr) ==
    IF xerr # NoErr THEN Ret(xerr, 0, <<>>) ELSE Ret(NoErr, 0, reply)

OpReturn(name, reply, xerr) ==
    CASE name \in OkOps -> Ret(sendRequestOk(reply, xerr), 0, <<>>)
      [] name \in RawOps -> Ret(xerr, 0, reply)
      [] name = "GetNetwork" -> GetNetwork(reply, xerr)
      [] name = "AddNetwork" -> AddNetwork(reply, xerr)
      [] name = "NumOfNetworks" -> NumOfNetworks(reply, xerr)
      [] name = "Ping" -> Ret(Ping(reply, xerr), 0, <<>>)

\* ------------------------------------------------------------------------
\* State
\* ------------------------------------------------------------------------
VARIABLES
    c,         \* the Conn the program holds: pointer, uconn, endpoint file
    connects,  \* Connect calls made so far (c is the result of the latest)
    wire,      \* request datagrams the daemon has received and not yet answered
    inbox,     \* the reply datagrams queued on c's socket (by request id)
    frame,     \* per caller, the call in progress
    lastRes,   \* what the most recently completed call returned
    panicked,  \* a nil dereference has crashed the process
    calls,     \* method calls made so far
    nreq,      \* request datagrams delivered so far (the id of the latest)
    users,     \* the callers that have called a method on c
    orphan,    \* a Read on c failed, leaving the reply to its request unread
    closed,    \* Close has returned on c
    paired     \* an exchange on c got its own reply, with one user and no orphan

vars == <<c, connects, wire, inbox, frame, lastRes, panicked, calls, nreq,
          users, orphan, closed, paired>>

Callers == {1, 2}

NoConn == [ptr |-> "none", uconn |-> "nil", file |-> FALSE]

\* func (c *Conn) ok() bool
ok(cn) == cn.ptr # "nil" /\ cn.uconn # "nil"

Idle == [pc |-> "idle"]

SimpleCall(name, id) == [name |-> name, id |-> id, format |-> KeyASCII, keys |-> <<>>]
WepCall(id, format, keys) ==
    [name |-> "SetNetworkWepKeys", id |-> id, format |-> format, keys |-> keys]

Calls == {SimpleCall(n, id) : n \in SimpleOps, id \in Ids}
         \cup {WepCall(id, fm, ks) : id \in Ids, fm \in Formats, ks \in KeyLists}

\* the daemon's possible reply payloads
Replies == {OKReply, FailReply, <<"O", "K">>, <<"O", "K", "\n", "\n">>, <<>>,
            PongReply, <<"P", "O", "N", "G">>, <<"5", "\n">>, <<" ", "1", "2", "\n">>, LongReply}
           \cup {ListReply(n) : n \in 0..MaxLines}

\* the catalogue and payloads of the runs that exercise the life cycle
LifeReplies == {OKReply, FailReply}

\* the catalogue and payloads of the runs with two concurrent callers
ConcCalls == {SimpleCall(n, id) : n \in {"Status", "Ping", "SaveConfig"}, id \in Ids}
ConcReplies == {OKReply, PongReply}

NoRes == [op |-> "none", p |-> 0, call |-> SimpleCall("none", 0),
          err |-> NoErr, num |-> 0, str |-> <<>>, raw |-> <<>>, xerr |-> NoErr,
          rid |-> 0, got |-> 0, rdata |-> <<>>, rerr |-> NoErr, sent |-> <<>>,
          outs |-> <<>>, writes |-> 0,
          reads |-> 0, wout |-> "none", deliv |-> 0, invalid |-> FALSE,
          afterClose |-> FALSE, panic |-> FALSE, removes |-> 0, sock |-> "none",
          sockErr |-> NoErr, gone |-> FALSE]

\* ------------------------------------------------------------------------
\* The call in progress: a method of Conn running up to its next socket call
\* ------------------------------------------------------------------------
Done(f, err, num, str) ==
    [f EXCEPT !.pc = "done", !.err = err, !.num = num, !.str = str]

\* SetNetworkWepKeys: the loop from key index i on, up to the next request
RECURSIVE WepFrom(_, _)
WepFrom(f, i) ==
    IF i >= Len(f.call.keys) THEN Done(f, NoErr, 0, <<>>)
    ELSE IF f.call.format \in {KeyASCII, KeyHex}
         THEN [f EXCEPT !.pc = "enter", !.i = i,
                        !.msg = WepKeyMsg(f.call.id, f.call.format, i, f.call.keys[i + 1])]
         ELSE WepFrom(f, i + 1)

\* as SetNetworkWepKeys, but going on to the next key after a failure
SetNetworkWepKeysKeepGoing(f, e) == WepFrom(f, f.i + 1)

\* SetNetworkWepKeys: SetNetwork for key f.i has returned e
SetNetworkWepKeys(f, e) ==
    IF e # NoErr THEN Done(f, e, 0, <<>>) ELSE WepFrom(f, f.i + 1)

\* the method continues after sendRequest has returned (reply, xerr)
Resume(f, reply, xerr) ==
    LET g == [f EXCEPT !.raw = reply, !.xerr = xerr]
    IN  IF f.call.name = "SetNetworkWepKeys"
        THEN LET e == sendRequestOk(reply, xerr)
             IN  SetNetworkWepKeys([g EXCEPT !.outs = Append(@, e)], e)
        ELSE LET r == OpReturn(f.call.name, reply, xerr)
             IN  Done(g, r.err, r.num, r.str)

\* sendRequest is entered with f.msg: the validity check, then the write is next
RECURSIVE Enter(_)
Enter(f) ==
    LET g == [f EXCEPT !.sent = Append(@, f.msg), !.writes = 0, !.reads = 0,
                       !.wout = "none", !.rid = 0, !.got = 0, !.rdata = <<>>,
                       !.rerr = NoErr]
    IN  IF ~ok(c)
        THEN LET h == Resume(g, <<>>, EINVAL)
             IN  IF h.pc = "enter" THEN Enter(h) ELSE h
        ELSE [g EXCEPT !.pc = "write"]

Settle(f) == IF f.pc = "enter" THEN Enter(f) ELSE f

\* a method of Conn is called
Start(p, call) ==
    LET f == [pc |-> "enter", p |-> p, call |-> call, i |-> 0,
              msg |-> IF call.name = "SetNetworkWepKeys" THEN ""
                      ELSE RequestMsg(call.name, call.id),
              err |-> NoErr, num |-> 0, str |-> <<>>, raw |-> <<>>, xerr |-> NoErr,
              rid |-> 0, got |-> 0, rdata |-> <<>>, rerr |-> NoErr, sent |-> <<>>,
              outs |-> <<>>, writes |-> 0,
              reads |-> 0, wout |-> "none", deliv |-> 0, invalid |-> ~ok(c),
              afterClose |-> closed]
    IN  Settle(IF call.name = "SetNetworkWepKeys" THEN WepFrom(f, 0) ELSE f)

\* as AfterWrite, but without the n != len(msg) test: a short write is read after
AfterWriteNoLenCheck(f, o, werr) ==
    LET g == [f EXCEPT !.writes = @ + 1, !.wout = o]
    IN  CASE o \in {"ok", "short"} -> [g EXCEPT !.pc = "read"]
          [] o = "err" -> Settle(Resume(g, <<>>, SendError(werr)))

\* as AfterWrite, but returning after a successful write without reading
AfterWriteNoRead(f, o, werr) ==
    LET g == [f EXCEPT !.writes = @ + 1, !.wout = o]
    IN  CASE o = "ok" -> Settle(Resume(g, <<>>, NoErr))
          [] o = "short" -> Settle(Resume(g, <<>>, SendError(NoErr)))
          [] o = "err" -> Settle(Resume(g, <<>>, SendError(werr)))

\* sendRequest after c.uconn.Write returned outcome o
\* ("ok": n = len(msg), err = nil; "short": n # len(msg), err = nil; "err")
AfterWrite(f, o, werr) ==
    LET g == [f EXCEPT !.writes = @ + 1, !.wout = o]
    IN  CASE o = "ok" -> [g EXCEPT !.pc = "read"]
          [] o = "short" -> Settle(Resume(g, <<>>, SendError(NoErr)))
          [] o = "err" -> Settle(Resume(g, <<>>, SendError(werr)))

\* sendRequest after c.uconn.Read returned (n, rerr), data being reply[:n]
AfterRead(f, data, rerr) ==
    LET g == [f EXCEPT !.reads = @ + 1]
    IN  Settle(Resume(g, data, rerr))

\* what c.uconn.Read returned, noted in the frame
ReadReturned(f, data, rerr) == [f EXCEPT !.rdata = data, !.rerr = rerr]

\* the bytes Read copies into the 4096-byte buffer: reply[:n]
ReadInto(data) == SubSeq(data, 1, IF Len(data) < BufSize THEN Len(data) ELSE BufSize)

\* the socket's queue once Read has taken a datagram
Taken(q) == Tail(q)

Result(f) ==
    [NoRes EXCEPT !.op = f.call.name, !.p = f.p, !.call = f.call,
                  !.err = f.err, !.num = f.num, !.str = f.str, !.raw = f.raw,
                  !.xerr = f.xerr, !.rid = f.rid, !.got = f.got, !.rdata = f.rdata,
                  !.rerr = f.rerr, !.sent = f.sent,
                  !.outs = f.outs, !.writes = f.writes, !.reads = f.reads,
                  !.wout = f.wout, !.deliv = f.deliv, !.invalid = f.invalid,
                  !.afterClose = f.afterClose]

\* the caller's frame and the last result once the method has run to g
Advance(p, g) ==
    IF g.pc = "done"
    THEN /\ frame' = [frame EXCEPT ![p] = Idle]
         /\ lastRes' = Result(g)
    ELSE /\ frame' = [frame EXCEPT ![p] = g]
         /\ lastRes' = NoRes

\* ------------------------------------------------------------------------
\* Connect and Close
\* ------------------------------------------------------------------------
ConnectOutcomes == {"tempfile", "dial", "bound", "ok"}

\* Connect: (nil, err) when ioutil.TempFile fails; otherwise the Conn with
\* localSock set and uconn as net.DialUnix returned it, together with err.
\* A failed dial leaves the endpoint file in place when the bind had succeeded.
Connect(o) ==
    CASE o = "tempfile" -> [c |-> [ptr |-> "nil", uconn |-> "nil", file |-> FALSE],
                            err |-> ErrIO]
      [] o = "dial" -> [c |-> [ptr |-> "obj", uconn |-> "nil", file |-> FALSE],
                        err |-> ErrIO]
      [] o = "bound" -> [c |-> [ptr |-> "obj", uconn |-> "nil", file |-> TRUE],
                         err |-> ErrIO]
      [] o = "ok" -> [c |-> [ptr |-> "obj", uconn |-> "open", file |-> TRUE],
                      err |-> NoErr]

\* as SockClose, but leaving the socket open
SockCloseLeftOpen(cn, sc) == [uconn |-> cn.uconn, err |-> sc]

\* c.uconn.Close(): sc is what closing an open socket returns
SockClose(cn, sc) ==
    IF cn.uconn = "open" THEN [uconn |-> "closed", err |-> sc]
    ELSE [uconn |-> cn.uconn, err |-> ErrClosed]

\* Close: rm tells whether os.Remove(c.localSock) succeeds on an existing file.
\* Reading c.localSock through a nil c is a nil dereference.
Close(cn, sc, rm) ==
    LET s == IF ok(cn) THEN SockClose(cn, sc) ELSE [uconn |-> cn.uconn, err |-> NoErr]
    IN  IF cn.ptr = "nil"
        THEN [c |-> cn, panic |-> TRUE, err |-> NoErr, sockErr |-> NoErr,
              sock |-> "skipped", removes |-> 0]
        ELSE [c |-> [cn EXCEPT !.uconn = s.uconn, !.file = cn.file /\ ~rm],
              panic |-> FALSE, err |-> s.err, sockErr |-> s.err,
              sock |-> IF ok(cn) THEN "called" ELSE "skipped", removes |-> 1]

\* ------------------------------------------------------------------------
\* Actions
\* ------------------------------------------------------------------------
Init ==
    /\ c = NoConn
    /\ connects = 0
    /\ wire = <<>>
    /\ inbox = <<>>
    /\ frame = [p \in Callers |-> Idle]
    /\ lastRes = NoRes
    /\ panicked = FALSE
    /\ calls = 0
    /\ nreq = 0
    /\ users = {}
    /\ orphan = FALSE
    /\ closed = FALSE
    /\ paired = FALSE

\* caller p calls Connect and keeps the result as c; the Conn held before is
\* dropped, and replies addressed to its endpoint no longer reach the program
DoConnect(p, o) ==
    /\ ~panicked
    /\ \A q \in Callers : frame[q].pc = "idle"
    /\ connects < MaxConnects
    /\ connects' = connects + 1
    /\ LET r == Connect(o)
       IN  /\ c' = r.c
           /\ lastRes' = [NoRes EXCEPT !.op = "Connect", !.p = p, !.err = r.err]
    /\ inbox' = <<>>
    /\ users' = {}
    /\ orphan' = FALSE
    /\ closed' = FALSE
    /\ paired' = FALSE
    /\ UNCHANGED <<wire, frame, panicked, calls, nreq>>

\* caller p calls c.Close()
DoClose(p, sc, rm) ==
    /\ ~panicked
    /\ frame[p].pc = "idle"
    /\ calls < MaxCalls
    /\ c.ptr # "none"
    /\ LET r == Close(c, sc, rm)
       IN  /\ c' = r.c
           /\ panicked' = r.panic
           /\ closed' = (closed \/ ~r.panic)
           /\ inbox' = IF r.c.uconn = "closed" THEN <<>> ELSE inbox
           /\ lastRes' = [NoRes EXCEPT !.op = "Close", !.p = p,
                                       !.err = r.err, !.sockErr = r.sockErr,
                                       !.sock = r.sock, !.removes = r.removes,
                                       !.panic = r.panic, !.gone = ~r.c.file,
                                       !.invalid = ~ok(c),
                                       !.afterClose = closed]
    /\ calls' = calls + 1
    /\ users' = users \cup {p}
    /\ UNCHANGED <<connects, wire, frame, nreq, orphan, paired>>

\* caller p calls a request method on c
Invoke(p, call, budget) ==
    /\ ~panicked
    /\ frame[p].pc = "idle"
    /\ calls < budget
    /\ c.ptr # "none"
    /\ calls' = calls + 1
    /\ users' = users \cup {p}
    /\ Advance(p, Start(p, call))
    /\ UNCHANGED <<c, connects, wire, inbox, panicked, nreq, orphan, closed, paired>>

\* c.uconn.Write returns in caller p's sendRequest. A unixgram socket queues a
\* datagram whole or not at all: only the outcome "ok" delivers the request.
SendWrite(p, o) ==
    /\ ~panicked
    /\ frame[p].pc = "write"
    /\ LET f == frame[p]
           delivered == (o = "ok")
           g == IF delivered THEN [f EXCEPT !.rid = nreq + 1, !.deliv = @ + 1] ELSE f
       IN  /\ o \in (IF c.uconn = "open" THEN {"ok", "short", "err"} ELSE {"err"})
           /\ nreq' = IF delivered THEN nreq + 1 ELSE nreq
           /\ wire' = IF delivered THEN Append(wire, [conn |-> connects, rid |-> nreq + 1])
                      ELSE wire
           /\ Advance(p, AfterWrite(g, o, IF c.uconn = "open" THEN ErrIO ELSE ErrClosed))
    /\ UNCHANGED <<c, connects, inbox, panicked, calls, users, orphan, closed, paired>>

\* c.uconn.Read returns the oldest queued datagram in caller p's sendRequest.
\* Its payload is the daemon's choice; nothing observes it before Read returns,
\* so it is drawn here.
RecvReply(p, data) ==
    /\ ~panicked
    /\ frame[p].pc = "read"
    /\ c.uconn = "open"
    /\ inbox # <<>>
    /\ LET f == frame[p]
           rid == Head(inbox)
       IN  /\ inbox' = Taken(inbox)
           /\ paired' = (paired \/ (rid = f.rid /\ Cardinality(users) <= 1 /\ ~orphan))
           /\ Advance(p, AfterRead(ReadReturned([f EXCEPT !.got = rid], ReadInto(data), NoErr),
                                   ReadInto(data), NoErr))
    /\ UNCHANGED <<c, connects, wire, panicked, calls, nreq, users, orphan, closed>>

\* c.uconn.Read returns an error in caller p's sendRequest
RecvError(p) ==
    /\ ~panicked
    /\ frame[p].pc = "read"
    /\ orphan' = TRUE
    /\ LET rerr == IF c.uconn = "open" THEN ErrIO ELSE ErrClosed
       IN  Advance(p, AfterRead(ReadReturned(frame[p], ReadInto(<<>>), rerr),
                                ReadInto(<<>>), rerr))
    /\ UNCHANGED <<c, connects, wire, inbox, panicked, calls, nreq, users, closed,
                   paired>>

\* the daemon answers the oldest request it holds with one reply datagram,
\* which is lost unless the requester's socket is still open
Daemon ==
    /\ wire # <<>>
    /\ LET r == Head(wire)
       IN  inbox' = IF r.conn = connects /\ c.uconn = "open"
                    THEN Append(inbox, r.rid)
                    ELSE inbox
    /\ wire' = Tail(wire)
    /\ UNCHANGED <<c, connects, frame, lastRes, panicked, calls, nreq, users,
                   orphan, closed, paired>>

\* one caller uses the package sequentially, from before the first Connect
Next ==
    \/ \E o \in ConnectOutcomes : DoConnect(1, o)
    \/ \E sc \in {NoErr, ErrIO}, rm \in BOOLEAN : DoClose(1, sc, rm)
    \/ \E call \in Calls : Invoke(1, call, MaxCalls)
    \/ \E o \in {"ok", "short", "err"} : SendWrite(1, o)
    \/ \E data \in LifeReplies : RecvReply(1, data)
    \/ RecvError(1)
    \/ Daemon

Spec == Init /\ [][Next]_vars

\* one caller uses a Conn that Connect has just returned with no error,
\* and the daemon may reply with any payload
InitReply ==
    /\ c = Connect("ok").c
    /\ connects = 1
    /\ wire = <<>>
    /\ inbox = <<>>
    /\ frame = [p \in Callers |-> Idle]
    /\ lastRes = NoRes
    /\ panicked = FALSE
    /\ calls = 0
    /\ nreq = 0
    /\ users = {}
    /\ orphan = FALSE
    /\ closed = FALSE
    /\ paired = FALSE

NextReply ==
    \/ \E call \in Calls : Invoke(1, call, MaxReplyCalls)
    \/ \E o \in {"ok", "short", "err"} : SendWrite(1, o)
    \/ \E data \in Replies : RecvReply(1, data)
    \/ RecvError(1)
    \/ Daemon

SpecReply == InitReply /\ [][NextReply]_vars

\* two callers share c without synchronisation
NextConc ==
    \/ \E p \in Callers, o \in ConnectOutcomes : DoConnect(p, o)
    \/ \E p \in Callers, sc \in {NoErr, ErrIO}, rm \in BOOLEAN : DoClose(p, sc, rm)
    \/ \E p \in Callers, call \in ConcCalls : Invoke(p, call, MaxCalls)
    \/ \E p \in Callers, o \in {"ok", "short", "err"} : SendWrite(p, o)
    \/ \E p \in Callers, data \in ConcReplies : RecvReply(p, data)
    \/ \E p \in Callers : RecvError(p)
    \/ Daemon

SpecConc == Init /\ [][NextConc]_vars

\* ------------------------------------------------------------------------
\* Properties
\* ------------------------------------------------------------------------
Contains(t, r) == \E i \in 0..(Len(t) - Len(r)) : SubSeq(t, i + 1, i + Len(r)) = r

\* an optional sign followed by one or more decimal digits
IsDecimal(s) ==
    LET body == IF s # <<>> /\ s[1] \in {"+", "-"} THEN Tail(s) ELSE s
    IN  body # <<>> /\ \A i \in 1..Len(body) : IsDigit(body[i])

\* requests of the Conn held now that were delivered and whose reply is unread
Outstanding == Len(SelectSeq(wire, LAMBDA r : r.conn = connects)) + Len(inbox)

\* C1: a method built on sendRequestOk returns no error exactly when the
\* exchange succeeded and the raw reply is the 3 bytes OK\n; for any other
\* reply it returns an error whose text is that reply.
C1_SendRequestOk ==
    lastRes.op \in OkOps =>
        /\ (lastRes.err = NoErr) <=>
               (lastRes.xerr = NoErr /\ lastRes.raw = <<"O", "K", "\n">>)
        /\ (lastRes.xerr = NoErr /\ lastRes.raw # <<"O", "K", "\n">>) =>
               (lastRes.err # NoErr /\ lastRes.err.text = lastRes.raw)

C1_Witness ==
    /\ lastRes.op \in OkOps
    /\ lastRes.xerr = NoErr
    /\ lastRes.raw = <<"O", "K", "\n", "\n">>
    /\ lastRes.err.text = lastRes.raw

\* C2: a method called on a Conn whose socket was never established (a nil
\* Conn, or the Conn of a failed dial) does not panic and delivers no datagram,
\* and a request method that reaches sendRequest returns EINVAL.
C2_NeverEstablished ==
    (lastRes.op \in RequestOps \cup {"Close"} /\ lastRes.invalid) =>
        /\ ~lastRes.panic
        /\ lastRes.deliv = 0
        /\ (lastRes.op \in RequestOps /\ lastRes.sent # <<>>) => lastRes.err = EINVAL

\* C3: AddNetwork returns the integer parsed from the trimmed reply; on a
\* non-numeric reply a parse error and -1; on a failed exchange the
\* exchange's error and -1.
C3_AddNetwork ==
    lastRes.op = "AddNetwork" =>
        /\ lastRes.xerr # NoErr => (lastRes.err = lastRes.xerr /\ lastRes.num = 0 - 1)
        /\ (lastRes.xerr = NoErr /\ lastRes.raw = <<"5", "\n">>) =>
               (lastRes.err = NoErr /\ lastRes.num = 5)
        /\ (lastRes.xerr = NoErr /\ IsDecimal(TrimSpace(lastRes.raw))) =>
               lastRes.err = NoErr
        /\ (lastRes.xerr = NoErr /\ ~IsDecimal(TrimSpace(lastRes.raw))) =>
               (lastRes.err.kind = "NumError" /\ lastRes.num = 0 - 1)

\* C4: SetNetworkWepKeys with n keys issues SET_NETWORK <id> wep_key<i> <value>
\* for i = 0, 1, ... in order, quoted for ASCII and raw for Hex, stops at the
\* first request that fails and returns its error, and returns no error only
\* when all n requests were acknowledged.
C4_SetNetworkWepKeys ==
    lastRes.op = "SetNetworkWepKeys" =>
        LET keys == lastRes.call.keys
            n == Len(keys)
            m == Len(lastRes.sent)
            outs == lastRes.outs
        IN  /\ m <= n
            /\ Len(outs) = m
            /\ \A i \in 1..m :
                 lastRes.sent[i] =
                     "SET_NETWORK " \o ToString(lastRes.call.id) \o " wep_key"
                     \o ToString(i - 1) \o " "
                     \o (IF lastRes.call.format = KeyASCII
                         THEN "\"" \o keys[i] \o "\"" ELSE keys[i])
            /\ \A i \in 1..(m - 1) : outs[i] = NoErr
            /\ m < n => (m >= 1 /\ outs[m] # NoErr)
            /\ lastRes.err = (IF m >= 1 THEN outs[m] ELSE NoErr)
            /\ (lastRes.err = NoErr) <=> (m = n /\ \A i \in 1..m : outs[i] = NoErr)

C4_Witness ==
    /\ lastRes.op = "SetNetworkWepKeys"
    /\ lastRes.call.format = KeyASCII
    /\ Len(lastRes.call.keys) = 2
    /\ lastRes.sent = <<"SET_NETWORK 5 wep_key0 \"k0\"">>
    /\ lastRes.err = Errorf(FailReply)

\* C5: NumOfNetworks returns N and no error when the reply is one header line
\* followed by N newline-terminated lines, and the exchange's error with the
\* count 0 when the exchange fails.
C5_NumOfNetworks ==
    lastRes.op = "NumOfNetworks" =>
        /\ lastRes.xerr # NoErr => (lastRes.err = lastRes.xerr /\ lastRes.num = 0)
        /\ \A n \in 0..MaxLines :
             (lastRes.xerr = NoErr /\ lastRes.raw = ListReply(n)) =>
                 (lastRes.err = NoErr /\ lastRes.num = n)

C5_Witness ==
    /\ lastRes.op = "NumOfNetworks"
    /\ lastRes.xerr = NoErr
    /\ lastRes.raw = ListReply(MaxLines)
    /\ lastRes.num = MaxLines

\* C6: Ping returns no error exactly when the exchange succeeded and the raw
\* reply is PONG\n; for any other reply its error contains the raw reply.
C6_Ping ==
    lastRes.op = "Ping" =>
        /\ (lastRes.err = NoErr) <=>
               (lastRes.xerr = NoErr /\ lastRes.raw = <<"P", "O", "N", "G", "\n">>)
        /\ (lastRes.xerr = NoErr /\ lastRes.raw # <<"P", "O", "N", "G", "\n">>) =>
               (lastRes.err # NoErr /\ Contains(lastRes.err.text, lastRes.raw))

C6_Witness ==
    /\ lastRes.op = "Ping"
    /\ lastRes.xerr = NoErr
    /\ lastRes.raw = <<"O", "K", "\n">>
    /\ lastRes.err # NoErr
    /\ Contains(lastRes.err.text, lastRes.raw)

\* C7: every Close calls os.Remove on the endpoint file once, whether the
\* socket close succeeded, failed or was skipped, and returns exactly what
\* the socket close returned (no error when it was skipped).
C7_Close ==
    lastRes.op = "Close" =>
        /\ ~lastRes.panic
        /\ lastRes.removes = 1
        /\ lastRes.err = lastRes.sockErr
        /\ lastRes.sock = "skipped" => lastRes.err = NoErr

\* Close on a Conn that is not nil: the part of C7 the code keeps
CloseOnConn ==
    (lastRes.op = "Close" /\ ~lastRes.panic) =>
        /\ lastRes.removes = 1
        /\ lastRes.err = lastRes.sockErr
        /\ lastRes.sock = "skipped" => lastRes.err = NoErr

\* C8: a sendRequest call on a valid Conn writes once and then reads at most
\* once: after a failed or short write it returns an error without reading;
\* after a good write it reads once and returns that read's bytes (at most
\* 4096) and that read's error.
C8_SendRequest ==
    /\ \A p \in Callers :
         /\ frame[p].pc = "write" => (frame[p].writes = 0 /\ frame[p].reads = 0)
         /\ frame[p].pc = "read" =>
                (frame[p].writes = 1 /\ frame[p].reads = 0 /\ frame[p].wout = "ok")
    /\ (lastRes.op \in RequestOps /\ ~lastRes.invalid /\ lastRes.sent # <<>>) =>
         /\ lastRes.writes = 1
         /\ lastRes.wout \in {"short", "err"} =>
                (lastRes.reads = 0 /\ lastRes.xerr # NoErr /\ lastRes.raw = <<>>)
         /\ lastRes.wout = "ok" =>
                /\ lastRes.reads = 1
                /\ lastRes.raw = lastRes.rdata
                /\ lastRes.xerr = lastRes.rerr
                /\ Len(lastRes.raw) <= BufSize

C8_Witness ==
    /\ lastRes.op = "Status"
    /\ lastRes.wout = "ok"
    /\ lastRes.reads = 1
    /\ Len(lastRes.raw) = BufSize
    /\ lastRes.str = lastRes.raw

C10_Original ==
    /\ closed => c.uconn # "open"
    /\ (lastRes.op \in RequestOps /\ lastRes.afterClose) =>
           (lastRes.err # NoErr /\ lastRes.deliv = 0)
    /\ (lastRes.op = "Close" /\ lastRes.afterClose) => ~lastRes.panic

\* C10 amended: the same, for every method called later that issues a request
\* (SetNetworkWepKeys with an empty key list issues none and returns no error).
C10_ClosedStaysClosed ==
    /\ closed => c.uconn # "open"
    /\ (lastRes.op \in RequestOps /\ lastRes.afterClose) =>
           /\ lastRes.deliv = 0
           /\ lastRes.sent # <<>> => lastRes.err # NoErr
    /\ (lastRes.op = "Close" /\ lastRes.afterClose) => ~lastRes.panic

C10_Witness ==
    /\ closed
    /\ c.uconn = "closed"
    /\ lastRes.op = "Ping"
    /\ lastRes.afterClose
    /\ lastRes.wout = "err"
    /\ lastRes.err # NoErr

\* a Conn from a later Connect works after the earlier one was closed
NewConnectWorks ==
    /\ connects = 2
    /\ calls >= 2
    /\ lastRes.op = "SaveConfig"
    /\ lastRes.err = NoErr
    /\ lastRes.deliv = 1

====
